---- MODULE Spec2Model ----
(***************************************************************************)
(* Note-synthesis engine (AudioEngine, src/unnamed/part_000 lines 1-213),  *)
(* its spectrum sampler, and the renderer (Visualizer,                     *)
(* src/src/components/Visualizer.tsx lines 1-338), as state machines.      *)
(*                                                                         *)
(* The component is a React function component: its refs (audio context,   *)
(* analyser, the two node maps, the frame id, the working buffer) are      *)
(* mutable cells, activeKeys is React state, and the key handlers are      *)
(* closures over the activeKeys of the render that registered them.        *)
(* Time is in milliseconds, kept as the time left on each pending timer    *)
(* and the time elapsed since each voice's noteOff; frequencies are in     *)
(* hundredths of a hertz.                                                  *)
(***************************************************************************)
EXTENDS Integers, Sequences, FiniteSets, TLC

VARIABLES
    phase,            \* "constructed" | "mounted" | "crashed" | "unmounted"
    audioAvailable,   \* window.AudioContext || window.webkitAudioContext exists
    ctxState,         \* audioContextRef.current.state, "none" while the ref is null
    resumeRequested,  \* audioContext.resume() has been called
    oscillatorsRef,   \* Map key -> oscillator node (a voice id)
    gainsRef,         \* Map key -> gain node (the voice id it belongs to)
    activeKeys,       \* React state: the Set after every enqueued update
    handlerKeys,      \* the activeKeys captured by the registered handlers
    voices,           \* the oscillators that exist: id -> record.  An oscillator
                      \* is dropped once it is stopped and in neither map.
    timers,           \* pending setTimeout callbacks, in firing order, each
                      \* with the time left until it is due (ms)
    framePending,     \* a requestAnimationFrame(updateAnalyser) request is pending
    spectrum,         \* what the analyser node's getByteFrequencyData yields
    dataArray,        \* dataArrayRef.current (Uint8Array), Null while the ref is null
    analyserData,     \* the snapshot the page holds for the renderer, or Null
    rawRead,          \* the raw magnitudes dataArray was last filled from, Null
                      \* when it holds something else (the seed, a boost)
    lateCallbacks,    \* kinds of callback that have run after teardown
    earlyRemoval,     \* a release completion has stopped a voice that had not
                      \* had a full release delay since its own noteOff
    ignored,          \* the kind of the last event that found nothing to do:
                      \* "none" | "repress" | "repressInRelease" | "strayOff" |
                      \* "unmapped" | "strayRelease"
    pressed,          \* the keys whose last key-down started a voice and that have
                      \* had no key-up since
    interacted,       \* the user has clicked or used a key
    snapshotObject,   \* which object the page's snapshot is: "none" (null) |
                      \* "copy" (an array of its own) | "working" (the
                      \* engine's dataArrayRef.current itself)
    snapshotOverwritten, \* an in-place write to the working buffer has
                      \* changed a snapshot the page held
    \* The renderer (Visualizer) and the page state it reads (Index)
    activeVisualizer, \* Index state: the visual-mode selection, any string
    drawMode,         \* the activeVisualizer captured by the draw callback that
                      \* the running animation loop calls
    dimensions,       \* Visualizer state: [width, height] in pixels
    target,           \* the render target: "ok" | "noCanvas" | "noContext"
    particlesRef,     \* particlesRef.current: its length and its first element
    colorIndex,       \* colorIndex.current, the animation phase, in PhaseUnits
    initializedRef,   \* initializedRef.current
    rafPending,       \* the request whose id the animation effect holds
                      \* (animationFrameId) is pending
    rafRequests,      \* the requestAnimationFrame(animate) requests pending
    vizMounted,       \* the Visualizer is mounted
    lastFrame         \* what the last call of draw() did

vars == << phase, audioAvailable, ctxState, resumeRequested, oscillatorsRef,
           gainsRef, activeKeys, handlerKeys, voices, timers,
           framePending, spectrum, dataArray, analyserData, rawRead,
           lateCallbacks, earlyRemoval, ignored, pressed, interacted,
           snapshotObject, snapshotOverwritten,
           activeVisualizer, drawMode, dimensions, target, particlesRef,
           colorIndex, initializedRef, rafPending, rafRequests,
           vizMounted, lastFrame >>

\* The renderer's variables.
rvars == << activeVisualizer, drawMode, dimensions, target, particlesRef,
            colorIndex, initializedRef, rafPending, rafRequests,
           vizMounted, lastFrame >>

\* The object of the page's snapshot.
pvars == << snapshotObject, snapshotOverwritten >>

\* The engine's variables other than the snapshot it hands to the page.
evars == << phase, audioAvailable, ctxState, resumeRequested, oscillatorsRef,
            gainsRef, activeKeys, handlerKeys, voices, timers,
            framePending, spectrum, dataArray, rawRead,
            lateCallbacks, earlyRemoval, ignored, pressed, interacted >>

---------------------------------------------------------------------------
(* Bounds of the model *)

MaxVoices == 3          \* oscillators in existence at once
MaxTimers == 2          \* release timers pending at once
NumKeySymbols == 4      \* key symbols the keyboard sends (a prefix of KeySymbols)
NumBins == 2            \* frequency bins of the analyser (fftSize / 2 in the code)
MaxPhase == 4           \* the animation phase the frames may reach, in PhaseUnits
Scale == 2              \* position units per pixel
MaxRequests == 2        \* animation-frame requests pending at once

(* Program constants *)

ReleaseMs == 100        \* setTimeout delay of the release completion
MaxByte == 255          \* Math.min(255, ...)
GainNum == 3            \* the sampler's gain 1.5 = GainNum / GainDen
GainDen == 2
ByteModulus == 256      \* Uint8Array element width
SeedRange == 50         \* Math.random() * 50
BoostLevel == 230       \* value written by the key-press boost
BoostCount == 10        \* bins written by the key-press boost
PopulationCount == 100  \* Array.from({ length: 100 }, ...)
IntensityGain == 3      \* averageFrequency / 255 * 3
Reactivity == 5         \* 1 + intensity * 5
PhaseStepBars == 2      \* colorIndex + 0.1, in units of 0.05
PhaseStepWave == 1      \* colorIndex + 0.05
PhaseModBars == 7200    \* % 360, in units of 0.05
DrawGainNum == 5        \* the draw algorithms' gain 2.5 = DrawGainNum / DrawGainDen
DrawGainDen == 2
SizeMin == 2            \* Math.random() * 5 + 2
SizeRange == 5
HueMin == 250           \* Math.random() * 60 + 250
HueRange == 60

\* The clock advances in steps of half a release delay.
TickMs == ReleaseMs \div 2

\* null: a value no Uint8Array equals (its elements are 0..255).
Null == << -1 >>

Min(a, b) == IF a <= b THEN a ELSE b

Max(a, b) == IF a >= b THEN a ELSE b

---------------------------------------------------------------------------
(* The note table and the key symbols *)

NOTES ==
    ("a" :> 26163) @@ ("s" :> 29366) @@ ("d" :> 32963) @@ ("f" :> 34923) @@
    ("g" :> 39200) @@ ("h" :> 44000) @@ ("j" :> 49388) @@ ("k" :> 52325) @@
    ("l" :> 58733)

KeySymbols == << "a", "z", "A", "s", "Z", "S", "d" >>

InputKeys == { KeySymbols[i] : i \in 1..Min(NumKeySymbols, Len(KeySymbols)) }

UpperToLower ==
    ("A" :> "a") @@ ("S" :> "s") @@ ("D" :> "d") @@ ("F" :> "f") @@
    ("G" :> "g") @@ ("H" :> "h") @@ ("J" :> "j") @@ ("K" :> "k") @@
    ("L" :> "l") @@ ("Z" :> "z")

ToLowerCase(s) == IF s \in DOMAIN UpperToLower THEN UpperToLower[s] ELSE s

\* The on-screen keys: one per entry of NOTES (those the model's keyboard has).
ScreenKeys == { k \in InputKeys : k \in DOMAIN NOTES }

\* NOTES[key]; a missing entry is undefined in the code, 0 here.
NoteFrequency(key) == IF key \in DOMAIN NOTES THEN NOTES[key] ELSE 0

---------------------------------------------------------------------------
(* Maps *)

MapSet(m, k, v) == [x \in (DOMAIN m) \cup {k} |-> IF x = k THEN v ELSE m[x]]

MapDelete(m, k) == [x \in (DOMAIN m) \ {k} |-> m[x]]

---------------------------------------------------------------------------
(* Typed-array stores and the amplification *)

\* Storing the non-negative number n/d into a Uint8Array element:
\* truncation to an integer, then modulo 2^8.
ToUint8(n, d) == (n \div d) % ByteModulus

AmplifyUnclamped(m) == ToUint8(m * GainNum, GainDen)

\* dataArray[i] = Math.min(255, dataArray[i] * 1.5)
Amplify(m) == ToUint8(Min(MaxByte * GainDen, m * GainNum), GainDen)

SeedLevelsLoud == {0, SeedRange}

\* Math.random() * 50 stored into the Uint8Array: 0..49; the model draws the ends.
SeedLevels == {0, SeedRange - 1}

Silence == [i \in 1..NumBins |-> 0]

\* Spectra in which neighbouring bins differ by at most one level.
RisingSpectra(levels) ==
    { [i \in 1..NumBins |-> Min(MaxByte, m + d[i])] :
        m \in levels, d \in [1..NumBins -> {0, 1}] }

\* The bins (0-based) the key-press boost writes.
BoostedBins(key) ==
    LET index == (NoteFrequency(key) % (NumBins * 100)) \div 100
    IN  { (index + i) % NumBins : i \in 0..(BoostCount - 1) }

---------------------------------------------------------------------------
(* The guards of the key handlers *)

KeyDownIgnoredNoActiveCheck(key) == key \notin DOMAIN NOTES

KeyDownIgnoredNoTableCheck(key) == key \in handlerKeys

KeyDownIgnoredUnlessReleasing(key) ==
    \/ key \notin DOMAIN NOTES
    \/ /\ key \in handlerKeys
       /\ ~(key \in DOMAIN oscillatorsRef /\ voices[oscillatorsRef[key]].sinceOff >= 0)

\* if (activeKeys.has(key) || !NOTES[key]) return;
KeyDownIgnored(key) == key \in handlerKeys \/ key \notin DOMAIN NOTES

\* if (!NOTES[key]) return;
KeyUpIgnored(key) == key \notin DOMAIN NOTES

ReleaseScheduledAlways(key) == TRUE

\* audioContextRef.current && oscillatorsRef.current.has(key), then if (gainNode)
ReleaseScheduled(key) ==
    /\ ctxState # "none"
    /\ key \in DOMAIN oscillatorsRef
    /\ key \in DOMAIN gainsRef

ResumeNever == resumeRequested

\* handleFirstInteraction: if (state === 'suspended') resume()
ResumeOnInteraction == resumeRequested \/ ctxState = "suspended"

OscKept(key) == oscillatorsRef

\* oscillatorsRef.current.delete(key)
OscAfterRelease(key) == MapDelete(oscillatorsRef, key)

GainsKept(key) == gainsRef

GainsCleared(key) == << >>

\* gainsRef.current.delete(key)
GainsAfterRelease(key) == MapDelete(gainsRef, key)

---------------------------------------------------------------------------
(* Voices.  key is what the code holds; the other fields record what has   *)
(* happened to the oscillator.                                             *)

NewVoice(key, resumed) ==
    [ key       |-> key,
      sinceOff  |-> -1,       \* ms since its first noteOff (up to ReleaseMs), -1 before it
      stops     |-> 0,        \* calls of stop() on it
      resumeOk  |-> ctxState # "suspended" \/ resumed ]

VoiceOf(key) == IF key \in DOMAIN oscillatorsRef THEN oscillatorsRef[key] ELSE 0

\* The ids a pending timer was scheduled for.
TimerVoices == { timers[i].voice : i \in 1..Len(timers) }

\* The identity of a newly created oscillator: the least id not in use.
FreshId ==
    LET used == (DOMAIN voices) \cup TimerVoices
    IN  CHOOSE i \in 1..(Cardinality(used) + 1) :
          /\ i \notin used
          /\ \A j \in 1..(i - 1) : j \in used

\* The oscillators of vs that still exist given the two maps.
Existing(vs, oscs, gains) ==
    LET kept == { v \in DOMAIN vs :
                    \/ vs[v].stops = 0
                    \/ \E k \in DOMAIN oscs : oscs[k] = v
                    \/ \E k \in DOMAIN gains : gains[k] = v }
    IN  [v \in kept |-> vs[v]]

---------------------------------------------------------------------------
(* The page's snapshot (Index, src/unnamed/part_003)                       *)

sliceSameObject(object) == object

\* data.slice(): a new Uint8Array with the same elements.
slice(object) == "copy"

(* The engine has written its working buffer in place, from the elements   *)
(* before to the elements after, and then calls onAudioProcess with it:    *)
(* setAnalyserData(data.slice()).                                          *)
Deliver(before, after) ==
    /\ snapshotOverwritten' =
         (snapshotOverwritten \/ (snapshotObject = "working" /\ after # before))
    /\ snapshotObject' = slice("working")

---------------------------------------------------------------------------
(* The renderer (Visualizer, src/src/components/Visualizer.tsx lines 1-338)*)
(* Positions are in units of 1/Scale pixel, speeds in units per frame, the *)
(* animation phase in units of 0.05.  A number is a record: the float v,   *)
(* or NaN.                                                                 *)

Real(v) == [nan |-> FALSE, v |-> v]

NaN == [nan |-> TRUE, v |-> 0]

RECURSIVE SumSeq(_)
SumSeq(s) == IF s = << >> THEN 0 ELSE Head(s) + SumSeq(Tail(s))

\* The four modes of the switch, and the strings activeVisualizer may hold:
\* "plasma" stands for every string that is none of the four.
Modes == {"bars", "circular", "wave", "particles"}

ModeValues == Modes \cup {"plasma"}

\* window.innerWidth x window.innerHeight
Viewports == << [width |-> 2, height |-> 1], [width |-> 1, height |-> 2] >>

ViewportSet == { Viewports[i] : i \in 1..Len(Viewports) }

\* The snapshots the page may hand to the renderer: any Uint8Array, the
\* empty one included.  The model draws uniform ones, at levels for which
\* 1 + intensity * 5 is a whole number.
SnapshotLevels == {0, 17, 255}

Snapshots == { << >> } \cup { [i \in 1..NumBins |-> v] : v \in SnapshotLevels }

DrawAlgorithmNoDefault(mode) == IF mode \in Modes THEN mode ELSE "none"

DrawAlgorithmIgnoringMode(mode) == "particles"

\* switch (activeVisualizer) { case ...: ...; default: drawBars }
DrawAlgorithm(mode) == IF mode \in Modes THEN mode ELSE "bars"

\* colorSchemes[activeVisualizer] || colorSchemes.bars
Palette(mode) == IF mode \in Modes THEN mode ELSE "bars"

DrawClosureStale(mode) == drawMode

\* useCallback(..., [analyserData, dimensions, activeVisualizer, getColor]):
\* the draw of a render captures that render's activeVisualizer.
DrawClosureMode(mode) == mode

RenderTargetAssumed(data) == TRUE

\* if (!canvas || !analyserData) return;  if (!ctx) return;
RenderTargetReady(data) == target = "ok" /\ data # Null

\* A ratio num / den, or NaN.
Ratio(num, den) == [nan |-> FALSE, num |-> num, den |-> den]

NaNRatio == [nan |-> TRUE, num |-> 0, den |-> 1]

\* The value of a frame that computes no intensity.
NoIntensity == [nan |-> FALSE, num |-> 0, den |-> 0]

IntensityUnclamped(data) ==
    LET n == Len(data)
    IN  IF n = 0 THEN NaNRatio
        ELSE Ratio(IntensityGain * SumSeq(data), MaxByte * n)

\* intensity = Math.min(1, averageFrequency / 255 * 3), with
\* averageFrequency = sum / data.length (0 / 0 is NaN, Math.min(1, NaN) is NaN).
Intensity(data) ==
    LET n == Len(data)
    IN  IF n = 0 THEN NaNRatio
        ELSE Ratio(Min(MaxByte * n, IntensityGain * SumSeq(data)), MaxByte * n)

\* The second variant's intensity = averageFrequency / 255 (line 555).
IntensitySecond(data) ==
    LET n == Len(data)
    IN  IF n = 0 THEN NaNRatio ELSE Ratio(SumSeq(data), MaxByte * n)

\* 1 + intensity * 5
Factor(data) ==
    LET i == Intensity(data)
    IN  IF i.nan THEN NaNRatio ELSE Ratio(i.den + Reactivity * i.num, i.den)

\* particle.x += particle.speedX * (1 + intensity * 5).  The product is a
\* whole number of position units for the speeds and snapshots of the model.
Displace(pos, speed, factor) ==
    IF pos.nan \/ factor.nan THEN NaN
    ELSE Real(pos.v + (speed * factor.num) \div factor.den)

DrawMagnitudeUnclamped(v) == v * DrawGainNum

\* amplifiedValue = Math.min(255, data[i] * 2.5), in units of 1 / DrawGainDen
DrawMagnitude(v) == Min(MaxByte * DrawGainDen, v * DrawGainNum)

\* if (x > limit) x = 0;  if (x < 0) x = limit;   (a comparison with NaN is false)
Wrap(pos, limit) ==
    LET a == IF ~pos.nan /\ pos.v > limit THEN Real(0) ELSE pos
    IN  IF ~a.nan /\ a.v < 0 THEN Real(limit) ELSE a

StepParticleDamping(p, dims, factor) ==
    [p EXCEPT !.x = Wrap(Displace(p.x, p.speedX, factor), dims.width * Scale),
              !.y = Wrap(Displace(p.y, p.speedY, factor), dims.height * Scale),
              !.speedX = IF Wrap(Displace(p.x, p.speedX, factor), dims.width * Scale)
                            = Displace(p.x, p.speedX, factor)
                         THEN p.speedX ELSE 0]

StepParticle(p, dims, factor) ==
    [p EXCEPT !.x = Wrap(Displace(p.x, p.speedX, factor), dims.width * Scale),
              !.y = Wrap(Displace(p.y, p.speedY, factor), dims.height * Scale)]

StepParticlesDropping(ps, dims, data) ==
    [ps EXCEPT !.length = Max(0, ps.length - 1)]

\* The loop of drawParticles over particlesRef.current.
StepParticles(ps, dims, data) ==
    [ps EXCEPT !.first = IF ps.first = << >> THEN << >>
                         ELSE << StepParticle(ps.first[1], dims, Factor(data)) >>]

\* Math.random() * 2 - 1 lies in [-1, 1): the model draws the ends.
Speeds == {-Scale, Scale - 1}

SpawnPositionsInclusive(side) == {0, side * Scale}

\* Math.random() * side lies in [0, side): the model draws the ends.
SpawnPositions(side) == {0, side * Scale - 1}

\* size: Math.random() * 5 + 2 lies in [2, 7); color: the hue of
\* hsl(Math.random() * 60 + 250, ...) lies in [250, 310).  The model draws
\* the smallest of both and the largest of both.
Looks ==
    { [size |-> SizeMin * Scale, color |-> HueMin],
      [size |-> (SizeMin + SizeRange) * Scale - 1, color |-> HueMin + HueRange - 1] }

\* particlesRef.current = [].  viewport records the dimensions a population
\* was generated for.
NoParticles == [length |-> 0, first |-> << >>,
                viewport |-> [width |-> 0, height |-> 0]]

\* Array.from({ length: 100 }, () => ({ x, y, size, speedX, speedY, color })),
\* with speeds drawn from speeds.  x0, y0 record where the particle was
\* generated.
ParticlesWith(dims, speeds) ==
    { [length   |-> PopulationCount,
       first    |-> << [x |-> Real(x), y |-> Real(y), size |-> look.size,
                         speedX |-> sx, speedY |-> sy, color |-> look.color,
                         x0 |-> x, y0 |-> y] >>,
       viewport |-> dims] :
        x \in SpawnPositions(dims.width), y \in SpawnPositions(dims.height),
        look \in Looks, sx \in speeds, sy \in speeds }

NewParticles(dims) == ParticlesWith(dims, Speeds)

ParticleSetupSkipped(mode, dims) == {particlesRef}

ParticleSetupOldViewport(mode, dims) ==
    IF mode = "particles" THEN NewParticles(dimensions) ELSE {particlesRef}

ParticleSetupOnce(mode, dims) ==
    IF mode = "particles" /\ particlesRef.length = 0
    THEN NewParticles(dims) ELSE {particlesRef}

\* The particle setup effect, run when activeVisualizer or dimensions changed.
ParticleSetup(mode, dims) ==
    IF mode = "particles" THEN NewParticles(dims) ELSE {particlesRef}

\* colorIndex.current after a frame of algorithm alg, from phase c.  The
\* wave's modulus, 2 pi, is above MaxPhase.
PhaseAfter(alg, c) ==
    IF alg = "bars" THEN (c + PhaseStepBars) % PhaseModBars
    ELSE IF alg = "wave" THEN c + PhaseStepWave
    ELSE c

(* draw(): one call, for the mode the callback captured, the snapshot data, *)
(* the viewport dims, the particles ps and the phase c.                     *)
draw(mode, data, dims, ps, c) ==
    LET alg == DrawAlgorithm(mode)
    IN  IF ~RenderTargetReady(data)
        THEN /\ particlesRef' = ps
             /\ colorIndex' = c
             /\ lastFrame' = [drawn |-> FALSE, algorithm |-> "none",
                              palette |-> "none", stepped |-> FALSE,
                              afterSkip |-> ~lastFrame.drawn,
                              viewport |-> dims,
                              magnitudes |-> << >>,
                              intensity |-> NoIntensity]
        ELSE /\ PhaseAfter(alg, c) <= MaxPhase
             /\ colorIndex' = PhaseAfter(alg, c)
             /\ particlesRef' = IF alg = "particles"
                                THEN StepParticles(ps, dims, data) ELSE ps
             /\ lastFrame' = [drawn |-> TRUE, algorithm |-> alg,
                              palette |-> IF alg \in {"bars", "circular"}
                                          THEN Palette(mode) ELSE "none",
                              stepped |-> alg = "particles",
                              afterSkip |-> ~lastFrame.drawn,
                              viewport |-> dims,
                              magnitudes |->
                                  IF alg = "particles" THEN << >>
                                  ELSE [i \in 1..Len(data) |-> DrawMagnitude(data[i])],
                              intensity |->
                                  IF alg = "particles" THEN Intensity(data)
                                  ELSE NoIntensity]

(* The state after the Visualizer has mounted in viewport d with render    *)
(* target t: the canvas init effect has drawn the starter bars, and the    *)
(* animation effect has called animate(), whose draw() found no snapshot.  *)
RendererInit(d, t) ==
    /\ activeVisualizer = "bars"
    /\ drawMode = "bars"
    /\ dimensions = d
    /\ target = t
    /\ particlesRef = NoParticles
    /\ initializedRef = (t = "ok")
    /\ colorIndex = IF t = "ok" THEN PhaseStepBars ELSE 0
    /\ rafPending = TRUE
    /\ rafRequests = 1
    /\ vizMounted = TRUE
    /\ lastFrame = [drawn |-> FALSE, algorithm |-> "none", palette |-> "none",
                    stepped |-> FALSE, afterSkip |-> FALSE, viewport |-> d,
                    magnitudes |-> << >>, intensity |-> NoIntensity]

AfterCancelNoop(n) == n

\* cancelAnimationFrame(animationFrameId): the requests pending afterwards.
AfterCancel(n) == IF rafPending THEN n - 1 ELSE n

(* The effects after a re-render with selection mode, snapshot data and    *)
(* viewport dims: the particle setup effect when setup, the canvas init    *)
(* effect when resized, then the animation effect, whose cleanup cancels   *)
(* the pending frame and whose body calls animate().                       *)
Effects(mode, data, dims, setup, resized) ==
    /\ drawMode' = DrawClosureMode(mode)
    /\ LET starter == resized /\ ~initializedRef /\ target = "ok"
       IN  /\ initializedRef' = (initializedRef \/ starter)
           /\ \E ps \in (IF setup THEN ParticleSetup(mode, dims) ELSE {particlesRef}) :
                draw(drawMode', data, dims, ps,
                     IF starter THEN PhaseAfter("bars", colorIndex) ELSE colorIndex)
    /\ rafPending' = TRUE
    /\ rafRequests' = AfterCancel(rafRequests) + 1
    /\ rafRequests' <= MaxRequests

\* handleChangeVisualizer: setActiveVisualizer(visualizer), and the re-render.
handleChangeVisualizer(visualizer) ==
    /\ vizMounted
    /\ visualizer # activeVisualizer
    /\ activeVisualizer' = visualizer
    /\ Effects(visualizer, analyserData, dimensions, TRUE, FALSE)
    /\ UNCHANGED << dimensions, target, vizMounted, analyserData, pvars, evars >>

\* handleResize: setDimensions({ width, height }), and the re-render.
handleResize(d) ==
    /\ vizMounted
    /\ dimensions' = d
    /\ Effects(activeVisualizer, analyserData, d, TRUE, TRUE)
    /\ UNCHANGED << activeVisualizer, target, vizMounted, analyserData, pvars,
                    evars >>

\* handleAudioProcess: setAnalyserData(data.slice()), and the re-render.
handleAudioProcess(data) ==
    /\ vizMounted
    /\ analyserData' = data
    /\ snapshotObject' = slice("working")
    /\ UNCHANGED snapshotOverwritten
    /\ Effects(activeVisualizer, data, dimensions, FALSE, FALSE)
    /\ UNCHANGED << activeVisualizer, dimensions, target, vizMounted, evars >>

\* The requestAnimationFrame callback: draw(), then the next request.
animate ==
    /\ rafRequests > 0
    /\ draw(drawMode, analyserData, dimensions, particlesRef, colorIndex)
    /\ rafPending' = TRUE
    /\ rafRequests' = (rafRequests - 1) + 1
    /\ UNCHANGED << activeVisualizer, drawMode, dimensions, target,
                    initializedRef, vizMounted, analyserData, pvars, evars >>

\* The Visualizer unmounts: the animation effect's cleanup cancels the
\* request it holds, the resize listener is removed, the canvas ref is reset.
unmountVisualizer ==
    /\ vizMounted
    /\ vizMounted' = FALSE
    /\ rafRequests' = AfterCancel(rafRequests)
    /\ rafPending' = FALSE
    /\ target' = "noCanvas"
    /\ UNCHANGED << activeVisualizer, drawMode, dimensions, particlesRef,
                    colorIndex, initializedRef, lastFrame, analyserData, pvars,
                    evars >>

---------------------------------------------------------------------------
(* Initial states *)

EngineInit ==
    /\ phase = "constructed"
    /\ audioAvailable \in BOOLEAN
    /\ ctxState = "none"
    /\ resumeRequested = FALSE
    /\ oscillatorsRef = << >>
    /\ gainsRef = << >>
    /\ activeKeys = {}
    /\ handlerKeys = {}
    /\ voices = << >>
    /\ timers = << >>
    /\ framePending = FALSE
    /\ spectrum = Silence
    /\ dataArray = Null
    /\ analyserData = Null
    /\ rawRead = Null
    /\ lateCallbacks = {}
    /\ earlyRemoval = FALSE
    /\ ignored = "none"
    /\ pressed = {}
    /\ interacted = FALSE
    /\ snapshotObject = "none"
    /\ snapshotOverwritten = FALSE

Init == EngineInit /\ RendererInit(Viewports[1], "ok")

---------------------------------------------------------------------------
(* Mounting: the three effects run in order.  initAudio constructs the     *)
(* context; with no constructor, `new undefined()` throws inside the       *)
(* effect and React unmounts the tree.                                     *)

initAudio ==
    /\ phase = "constructed"
    /\ IF audioAvailable
       THEN /\ phase' = "mounted"
            /\ ctxState' \in {"suspended", "running"}
            /\ \E seed \in [1..NumBins -> SeedLevels] :
                 /\ dataArray' = seed
                 /\ analyserData' = seed        \* onAudioProcess -> data.slice()
                 /\ Deliver(seed, seed)
            /\ framePending' = TRUE             \* second effect: context exists
       ELSE /\ phase' = "crashed"
            /\ UNCHANGED << ctxState, dataArray, analyserData, framePending,
                            pvars >>
    /\ UNCHANGED << audioAvailable, resumeRequested, oscillatorsRef, gainsRef,
                    activeKeys, handlerKeys, voices, timers, spectrum,
                    rawRead, lateCallbacks, earlyRemoval, ignored >>
    /\ UNCHANGED << pressed, interacted, rvars >>

(* Unmounting: the cleanups remove the listeners, cancel the frame request *)
(* and close the context.  Pending setTimeout callbacks are left alone.    *)
unmount ==
    /\ phase = "mounted"
    /\ phase' = "unmounted"
    /\ framePending' = FALSE
    /\ ctxState' = "closed"
    /\ UNCHANGED << audioAvailable, resumeRequested, oscillatorsRef, gainsRef,
                    activeKeys, handlerKeys, voices, timers, spectrum,
                    dataArray, analyserData, rawRead, lateCallbacks, earlyRemoval, ignored >>
    /\ UNCHANGED << pressed, interacted, rvars >>
    /\ UNCHANGED pvars

---------------------------------------------------------------------------
(* Input events *)

\* A click: only handleFirstInteraction listens.
click ==
    /\ phase = "mounted"
    /\ resumeRequested' = ResumeOnInteraction
    /\ UNCHANGED << phase, audioAvailable, ctxState, oscillatorsRef, gainsRef,
                    activeKeys, handlerKeys, voices, timers, framePending,
                    spectrum, dataArray, analyserData, rawRead, lateCallbacks,
                    earlyRemoval, ignored >>
    /\ interacted' = TRUE
    /\ UNCHANGED << pressed, rvars >>
    /\ UNCHANGED pvars

\* The promise of resume() resolves.
resumeResolved ==
    /\ phase = "mounted"
    /\ ctxState = "suspended"
    /\ resumeRequested
    /\ ctxState' = "running"
    /\ UNCHANGED << phase, audioAvailable, resumeRequested, oscillatorsRef,
                    gainsRef, activeKeys, handlerKeys, voices, timers,
                    framePending, spectrum, dataArray, analyserData, rawRead,
                    lateCallbacks, earlyRemoval, ignored >>
    /\ UNCHANGED << pressed, interacted, rvars >>
    /\ UNCHANGED pvars

(* A keydown event with e.key = e: handleFirstInteraction, then            *)
(* handleKeyDown.  The state update of handleKeyDown is made inside a      *)
(* discrete input event, so the re-render and the re-registration of the   *)
(* handlers (effect dependency [activeKeys]) are part of the event.        *)
handleKeyDown(e) ==
    /\ phase = "mounted"
    /\ LET key == ToLowerCase(e)
           resumed == ResumeOnInteraction
           id == FreshId
       IN  IF KeyDownIgnored(key)
           THEN /\ resumeRequested' = resumed
                /\ ignored' =
                     IF key \notin DOMAIN NOTES THEN "unmapped"
                     ELSE IF key \in DOMAIN oscillatorsRef
                             /\ voices[oscillatorsRef[key]].sinceOff < 0
                          THEN "repress"
                          ELSE IF key \in DOMAIN oscillatorsRef
                          THEN "repressInRelease"
                          ELSE ignored
                /\ UNCHANGED << oscillatorsRef, gainsRef, activeKeys, voices,
                                handlerKeys, dataArray, analyserData, rawRead,
                                pressed, pvars >>
           ELSE /\ Cardinality(DOMAIN voices) < MaxVoices
                /\ resumeRequested' = (resumed \/ ctxState = "suspended")
                /\ voices' = MapSet(voices, id, NewVoice(key, resumeRequested'))
                /\ oscillatorsRef' = MapSet(oscillatorsRef, key, id)
                /\ gainsRef' = MapSet(gainsRef, key, id)
                /\ activeKeys' = handlerKeys \cup {key}
                /\ handlerKeys' = activeKeys'
                /\ dataArray' =
                     [j \in 1..NumBins |->
                        IF (j - 1) \in BoostedBins(key) THEN BoostLevel
                        ELSE dataArray[j]]
                /\ analyserData' = dataArray'
                /\ Deliver(dataArray, dataArray')
                /\ rawRead' = Null
                /\ pressed' = pressed \cup {key}
                /\ UNCHANGED ignored
    /\ UNCHANGED << phase, audioAvailable, ctxState, timers, framePending,
                    spectrum, lateCallbacks, earlyRemoval >>
    /\ interacted' = TRUE
    /\ UNCHANGED rvars

(* A keyup event with e.key = e. *)
handleKeyUp(e) ==
    /\ phase = "mounted"
    /\ LET key == ToLowerCase(e)
           v == VoiceOf(key)
       IN  /\ pressed' = pressed \ {key}
           /\ IF KeyUpIgnored(key) \/ ~ReleaseScheduled(key)
              THEN /\ ignored' = IF KeyUpIgnored(key) THEN "unmapped"
                                  ELSE "strayOff"
                   /\ UNCHANGED << timers, voices >>
              ELSE /\ Len(timers) < MaxTimers
                   /\ UNCHANGED ignored
                   /\ timers' = Append(timers,
                          [key |-> key, left |-> ReleaseMs, voice |-> v])
                   /\ voices' =
                        IF v = 0 \/ voices[v].sinceOff >= 0 THEN voices
                        ELSE [voices EXCEPT ![v].sinceOff = 0]
    /\ UNCHANGED << phase, audioAvailable, ctxState, resumeRequested,
                    oscillatorsRef, gainsRef, activeKeys, handlerKeys,
                    framePending, spectrum, dataArray, analyserData, rawRead,
                    lateCallbacks, earlyRemoval >>
    /\ interacted' = TRUE
    /\ UNCHANGED << rvars, pvars >>

\* The on-screen keys dispatch the same events.
onMouseDown(k) == handleKeyDown(k)

onMouseUp(k) == handleKeyUp(k)

onMouseLeave(k) == k \in handlerKeys /\ handleKeyUp(k)

---------------------------------------------------------------------------
(* The release completion: the callback of setTimeout(..., 100).  Timers   *)
(* of equal delay fire in the order they were set, not before they are due.*)

releaseTimeout ==
    /\ timers # << >>
    /\ Head(timers).left = 0
    /\ LET t == Head(timers)
           key == t.key
           v == VoiceOf(key)
           stopped == IF v = 0 THEN voices
                      ELSE [voices EXCEPT ![v].stops = @ + 1]
       IN  /\ oscillatorsRef' = OscAfterRelease(key)
           /\ gainsRef' = GainsAfterRelease(key)
           /\ voices' = Existing(stopped, oscillatorsRef', gainsRef')
           /\ earlyRemoval' =
                (earlyRemoval \/ (v # 0 /\ voices[v].sinceOff < ReleaseMs))
           /\ ignored' = IF v = 0 THEN "strayRelease" ELSE ignored
           /\ activeKeys' = IF phase = "mounted" THEN activeKeys \ {key}
                            ELSE activeKeys
    /\ timers' = Tail(timers)
    /\ lateCallbacks' = IF phase = "unmounted" THEN lateCallbacks \cup {"timer"}
                        ELSE lateCallbacks
    /\ UNCHANGED << phase, audioAvailable, ctxState, resumeRequested,
                    handlerKeys, framePending, spectrum, dataArray,
                    analyserData, rawRead >>
    /\ UNCHANGED << pressed, interacted, rvars >>
    /\ UNCHANGED pvars

(* The re-render after a state update made in a timer callback: the effect *)
(* re-registers the handlers with the current activeKeys.                  *)
render ==
    /\ phase = "mounted"
    /\ handlerKeys # activeKeys
    /\ handlerKeys' = activeKeys
    /\ UNCHANGED << phase, audioAvailable, ctxState, resumeRequested,
                    oscillatorsRef, gainsRef, activeKeys, voices, timers,
                    framePending, spectrum, dataArray, analyserData, rawRead,
                    lateCallbacks, earlyRemoval, ignored >>
    /\ UNCHANGED << pressed, interacted, rvars >>
    /\ UNCHANGED pvars

(* TickMs of time pass: every pending timer comes closer to due and every  *)
(* voice that has had its noteOff has had it for longer.                   *)
tick ==
    /\ \E i \in 1..Len(timers) : timers[i].left > 0
    /\ timers' = [i \in 1..Len(timers) |->
                    [timers[i] EXCEPT !.left = Max(0, @ - TickMs)]]
    /\ voices' = [v \in DOMAIN voices |->
                    IF voices[v].sinceOff >= 0
                    THEN [voices[v] EXCEPT !.sinceOff = Min(ReleaseMs, @ + TickMs)]
                    ELSE voices[v]]
    /\ UNCHANGED << phase, audioAvailable, ctxState, resumeRequested,
                    oscillatorsRef, gainsRef, activeKeys, handlerKeys,
                    framePending, spectrum, dataArray, analyserData,
                    rawRead, lateCallbacks, earlyRemoval, ignored >>
    /\ UNCHANGED << pressed, interacted, rvars >>
    /\ UNCHANGED pvars

---------------------------------------------------------------------------
(* The sampler: the requestAnimationFrame callback *)

updateAnalyser ==
    /\ framePending
    /\ IF dataArray # Null
       THEN /\ rawRead' = spectrum                \* getByteFrequencyData
            /\ dataArray' = [i \in 1..NumBins |-> Amplify(spectrum[i])]
            /\ analyserData' = dataArray'         \* onAudioProcess
            /\ Deliver(dataArray, dataArray')
       ELSE UNCHANGED << rawRead, dataArray, analyserData, pvars >>
    /\ framePending' = TRUE
    /\ lateCallbacks' = IF phase = "unmounted" THEN lateCallbacks \cup {"frame"}
                        ELSE lateCallbacks
    /\ UNCHANGED << phase, audioAvailable, ctxState, resumeRequested,
                    oscillatorsRef, gainsRef, activeKeys, handlerKeys, voices,
                    timers, spectrum, earlyRemoval, ignored >>
    /\ UNCHANGED << pressed, interacted, rvars >>

---------------------------------------------------------------------------
(* The lazily-initialised AudioEngine (src/unnamed/part_000 lines 216-420):*)
(* the audio graph is created by the first click or key-down.  Its key-up  *)
(* handler, release callback and on-screen keys are those of the first     *)
(* variant; it has no seed, no amplification and no key-press boost.       *)

\* Mounting: the listeners are registered, and the sampling effect requests
\* a frame if the context exists.
mountLazy ==
    /\ phase = "constructed"
    /\ phase' = "mounted"
    /\ framePending' = (ctxState # "none")
    /\ UNCHANGED << audioAvailable, ctxState, resumeRequested, oscillatorsRef,
                    gainsRef, activeKeys, handlerKeys, voices, timers, spectrum,
                    dataArray, analyserData, rawRead, lateCallbacks,
                    earlyRemoval, ignored, pressed, interacted, rvars >>
    /\ UNCHANGED pvars

\* The states audioContextRef can be in after handleFirstInteraction:
\* initAudio() creates the context if there is none (and throws, leaving
\* none, when the constructor is missing).
ContextAfterInteraction ==
    IF ctxState = "none" /\ audioAvailable THEN {"suspended", "running"}
    ELSE {ctxState}

\* dataArrayRef after handleFirstInteraction left the context in state c.
BufferAfterInteraction(c) ==
    IF ctxState = "none" /\ c # "none" THEN Silence ELSE dataArray

\* A click: only handleFirstInteraction listens.
clickLazy ==
    /\ phase = "mounted"
    /\ interacted' = TRUE
    /\ \E c \in ContextAfterInteraction :
         /\ ctxState' = c
         /\ dataArray' = BufferAfterInteraction(c)
    /\ UNCHANGED << phase, audioAvailable, resumeRequested, oscillatorsRef,
                    gainsRef, activeKeys, handlerKeys, voices, timers,
                    framePending, spectrum, analyserData, rawRead,
                    lateCallbacks, earlyRemoval, ignored, pressed, rvars >>
    /\ UNCHANGED pvars

(* A keydown event with e.key = e: handleFirstInteraction, then            *)
(* handleKeyDown, which needs the context and the analyser.                *)
handleKeyDownLazy(e) ==
    /\ phase = "mounted"
    /\ interacted' = TRUE
    /\ LET key == ToLowerCase(e)
           id == FreshId
       IN  \E c \in ContextAfterInteraction :
             /\ ctxState' = c
             /\ dataArray' = BufferAfterInteraction(c)
             /\ IF KeyDownIgnored(key) \/ c = "none"
                THEN /\ ignored' =
                          IF key \notin DOMAIN NOTES THEN "unmapped"
                          ELSE IF key \in DOMAIN oscillatorsRef
                                  /\ voices[oscillatorsRef[key]].sinceOff < 0
                          THEN "repress"
                          ELSE IF key \in DOMAIN oscillatorsRef
                          THEN "repressInRelease"
                          ELSE ignored
                     /\ UNCHANGED << resumeRequested, oscillatorsRef, gainsRef,
                                     activeKeys, handlerKeys, voices, pressed >>
                ELSE /\ Cardinality(DOMAIN voices) < MaxVoices
                     /\ resumeRequested' = (resumeRequested \/ c = "suspended")
                     /\ voices' = MapSet(voices, id, NewVoice(key, resumeRequested'))
                     /\ oscillatorsRef' = MapSet(oscillatorsRef, key, id)
                     /\ gainsRef' = MapSet(gainsRef, key, id)
                     /\ activeKeys' = handlerKeys \cup {key}
                     /\ handlerKeys' = activeKeys'
                     /\ pressed' = pressed \cup {key}
                     /\ UNCHANGED ignored
    /\ UNCHANGED << phase, audioAvailable, timers, framePending, spectrum,
                    analyserData, rawRead, lateCallbacks, earlyRemoval, rvars >>
    /\ UNCHANGED pvars

onMouseDownLazy(k) == handleKeyDownLazy(k)

\* The cleanups: cancel the frame request, close the context if there is one.
unmountLazy ==
    /\ phase = "mounted"
    /\ phase' = "unmounted"
    /\ framePending' = FALSE
    /\ ctxState' = IF ctxState = "none" THEN "none" ELSE "closed"
    /\ UNCHANGED << audioAvailable, resumeRequested, oscillatorsRef, gainsRef,
                    activeKeys, handlerKeys, voices, timers, spectrum,
                    dataArray, analyserData, rawRead, lateCallbacks,
                    earlyRemoval, ignored, pressed, interacted, rvars >>
    /\ UNCHANGED pvars

(* A display refresh: the browser runs the pending requestAnimationFrame   *)
(* callback, if there is one.  updateAnalyser reads the analyser into the  *)
(* buffer, hands it to the page, and requests the next frame.              *)
displayFrameLazy ==
    /\ phase = "mounted"
    /\ IF framePending
       THEN /\ IF ctxState # "none" /\ dataArray # Null
               THEN /\ rawRead' = spectrum
                    /\ dataArray' = spectrum
                    /\ analyserData' = dataArray'
                    /\ Deliver(dataArray, dataArray')
               ELSE UNCHANGED << rawRead, dataArray, analyserData, pvars >>
            /\ framePending' = TRUE
       ELSE UNCHANGED << rawRead, dataArray, analyserData, framePending, pvars >>
    /\ UNCHANGED << phase, audioAvailable, ctxState, resumeRequested,
                    oscillatorsRef, gainsRef, activeKeys, handlerKeys, voices,
                    timers, spectrum, lateCallbacks, earlyRemoval, ignored,
                    pressed, interacted, rvars >>

(* updateAnalyser in a page whose Visualizer is mounted: onAudioProcess    *)
(* stores a copy of the buffer in the page, and the re-render runs the     *)
(* renderer's effects with it.                                             *)
updateAnalyserRendered ==
    /\ framePending
    /\ dataArray # Null
    /\ vizMounted
    /\ rawRead' = spectrum
    /\ dataArray' = [i \in 1..NumBins |-> Amplify(spectrum[i])]
    /\ analyserData' = dataArray'
    /\ Deliver(dataArray, dataArray')
    /\ Effects(activeVisualizer, analyserData', dimensions, FALSE, FALSE)
    /\ UNCHANGED << phase, audioAvailable, ctxState, resumeRequested,
                    oscillatorsRef, gainsRef, activeKeys, handlerKeys, voices,
                    timers, framePending, spectrum, lateCallbacks,
                    earlyRemoval, ignored, pressed, interacted,
                    activeVisualizer, dimensions, target, vizMounted >>

---------------------------------------------------------------------------
(* Specifications *)

Next ==
    \/ initAudio
    \/ unmount
    \/ click
    \/ resumeResolved
    \/ \E e \in InputKeys : handleKeyDown(e)
    \/ \E e \in InputKeys : handleKeyUp(e)
    \/ \E k \in ScreenKeys : onMouseDown(k)
    \/ \E k \in ScreenKeys : onMouseUp(k)
    \/ \E k \in ScreenKeys : onMouseLeave(k)
    \/ releaseTimeout
    \/ render
    \/ tick
    \/ updateAnalyser

Spec == Init /\ [][Next]_vars

(* The sampler alone: a mounted, running engine whose analyser holds any   *)
(* rising spectrum, and the frame callback.                                *)
InitSampler ==
    /\ phase = "mounted"
    /\ audioAvailable = TRUE
    /\ ctxState = "running"
    /\ resumeRequested = FALSE
    /\ oscillatorsRef = << >>
    /\ gainsRef = << >>
    /\ activeKeys = {}
    /\ handlerKeys = {}
    /\ voices = << >>
    /\ timers = << >>
    /\ framePending = TRUE
    /\ spectrum \in RisingSpectra(0..MaxByte)
    /\ dataArray = Silence
    /\ analyserData = Silence
    /\ rawRead = Null
    /\ lateCallbacks = {}
    /\ earlyRemoval = FALSE
    /\ ignored = "none"
    /\ pressed = {}
    /\ interacted = FALSE
    /\ snapshotObject = "copy"
    /\ snapshotOverwritten = FALSE
    /\ RendererInit(Viewports[1], "ok")

NextSampler == updateAnalyser

SpecSampler == InitSampler /\ [][NextSampler]_vars

(* The lazily-initialised engine. *)
InitLazy == EngineInit /\ RendererInit(Viewports[1], "ok")

NextLazy ==
    \/ mountLazy
    \/ unmountLazy
    \/ clickLazy
    \/ resumeResolved
    \/ \E e \in InputKeys : handleKeyDownLazy(e)
    \/ \E e \in InputKeys : handleKeyUp(e)
    \/ \E k \in ScreenKeys : onMouseDownLazy(k)
    \/ \E k \in ScreenKeys : onMouseUp(k)
    \/ \E k \in ScreenKeys : onMouseLeave(k)
    \/ releaseTimeout
    \/ render
    \/ tick
    \/ displayFrameLazy

SpecLazy == InitLazy /\ [][NextLazy]_vars

(* The renderer alone: a mounted Visualizer in any viewport, with any      *)
(* render target, fed any snapshots by the page.                           *)
InitRenderer ==
    /\ EngineInit
    /\ audioAvailable = TRUE
    /\ \E d \in ViewportSet, t \in {"ok", "noCanvas", "noContext"} :
         RendererInit(d, t)

NextRenderer ==
    \/ \E m \in ModeValues : handleChangeVisualizer(m)
    \/ \E d \in ViewportSet : handleResize(d)
    \/ \E data \in Snapshots : handleAudioProcess(data)
    \/ animate

SpecRenderer == InitRenderer /\ [][NextRenderer]_vars

(* The renderer until it unmounts. *)
NextLifecycle ==
    \/ \E m \in ModeValues : handleChangeVisualizer(m)
    \/ \E d \in ViewportSet : handleResize(d)
    \/ \E data \in Snapshots : handleAudioProcess(data)
    \/ animate
    \/ unmountVisualizer

SpecLifecycle == InitRenderer /\ [][NextLifecycle]_vars

(* The path of a magnitude from the analyser to the draw algorithms that   *)
(* size a bin with it: the sampler of a mounted engine, the page, and the  *)
(* renderer in the modes bars, circular and wave.                          *)
NextPipeline ==
    \/ updateAnalyserRendered
    \/ \E m \in {"bars", "circular", "wave"} : handleChangeVisualizer(m)
    \/ animate

SpecPipeline == InitSampler /\ [][NextPipeline]_vars

\* The magnitudes around which the intensity reaches its bounds.
IntensityLevels == {0, 1, 85, 86, 254, 255}

IntensitySnapshots == [1..NumBins -> IntensityLevels]

(* The particles algorithm's intensity: a renderer in particles mode whose *)
(* particles are at rest (Math.random() * 2 - 1 = 0), fed any snapshot.    *)
InitIntensity ==
    /\ EngineInit
    /\ audioAvailable = TRUE
    /\ activeVisualizer = "particles"
    /\ drawMode = "particles"
    /\ dimensions = Viewports[1]
    /\ target = "ok"
    /\ particlesRef \in ParticlesWith(dimensions, {0})
    /\ initializedRef = TRUE
    /\ colorIndex = PhaseStepBars
    /\ rafPending = TRUE
    /\ rafRequests = 1
    /\ vizMounted = TRUE
    /\ lastFrame = [drawn |-> FALSE, algorithm |-> "none", palette |-> "none",
                    stepped |-> FALSE, afterSkip |-> FALSE,
                    viewport |-> dimensions, magnitudes |-> << >>,
                    intensity |-> NoIntensity]

NextIntensity ==
    \/ \E data \in IntensitySnapshots : handleAudioProcess(data)
    \/ animate

SpecIntensity == InitIntensity /\ [][NextIntensity]_vars

---------------------------------------------------------------------------
(* Properties *)

\* The oscillators of key k that have been started and not stopped.
Playing(k) == { v \in DOMAIN voices : voices[v].key = k /\ voices[v].stops = 0 }

\* The registered keys.
Registered == (DOMAIN oscillatorsRef) \cup (DOMAIN gainsRef)

(* C1: a second noteOn for a held key creates nothing: every key of the    *)
(* note table has exactly one started, not-yet-stopped oscillator when it  *)
(* has a registry entry (and that entry is this oscillator), none          *)
(* otherwise.                                                              *)
C1_OneVoicePerKey ==
    \A k \in DOMAIN NOTES :
        /\ Cardinality(Playing(k)) = (IF k \in DOMAIN oscillatorsRef THEN 1 ELSE 0)
        /\ k \in DOMAIN oscillatorsRef => oscillatorsRef[k] \in Playing(k)

\* A key-down was ignored for a held key, whose one voice is registered and playing.
C1_Witness ==
    /\ ignored = "repress"
    /\ \E k \in DOMAIN oscillatorsRef :
         /\ voices[oscillatorsRef[k]].sinceOff < 0
         /\ Playing(k) = {oscillatorsRef[k]}

(* C2: a voice that has had its noteOff and whose release timer is no      *)
(* longer pending is absent from both maps and its oscillator is stopped.  *)
C2_ReleasedVoiceAbsent ==
    \A v \in DOMAIN voices :
        (voices[v].sinceOff >= 0 /\ v \notin TimerVoices) =>
            /\ voices[v].stops >= 1
            /\ \A k \in DOMAIN oscillatorsRef : oscillatorsRef[k] # v
            /\ \A k \in DOMAIN gainsRef : gainsRef[k] # v

\* A release completion has removed the voice of a key the handlers still
\* hold as active: no entry, no oscillator and no timer of that key is left.
C2_Witness ==
    \E k \in handlerKeys \ activeKeys :
        /\ k \notin Registered
        /\ Playing(k) = {}
        /\ \A i \in 1..Len(timers) : timers[i].key # k

(* C3: no release completion stops or removes a voice that has not had the *)
(* full release delay since its own noteOff (a voice with no noteOff is    *)
(* never removed).                                                         *)
C3_NoEarlyRemoval == ~earlyRemoval

(* C4: no oscillator receives stop() twice, and a stopped oscillator is no *)
(* longer registered, so that no later timer can stop or remove it again.  *)
C4_NoDoubleStop ==
    /\ \A v \in DOMAIN voices : voices[v].stops <= 1
    /\ \A k \in DOMAIN oscillatorsRef :
         /\ oscillatorsRef[k] \in DOMAIN voices
         /\ voices[oscillatorsRef[k]].stops = 0

\* A release timer has fired after an earlier timer of the same key had
\* already stopped and removed the voice.
C4_Witness == ignored = "strayRelease"

(* C5: after teardown no release-timer callback and no frame callback runs.*)
C5_NoCallbackAfterTeardown == phase = "unmounted" => lateCallbacks = {}

(* C6: a key-up for a key of the note table that has no registered voice   *)
(* changes neither the registry nor the active keys nor the pending timers.*)
C6_StrayNoteOffIsNoOp ==
    [][ \A e \in InputKeys :
          ( /\ handleKeyUp(e)
            /\ ToLowerCase(e) \in DOMAIN NOTES
            /\ ToLowerCase(e) \notin DOMAIN oscillatorsRef )
          => UNCHANGED << oscillatorsRef, gainsRef, voices, activeKeys,
                          handlerKeys, timers >> ]_vars

\* A stray key-up has been handled while another release was pending.
C6_Witness == ignored = "strayOff" /\ timers # << >>

(* C7: a key-down or key-up whose lower-cased symbol is not in the note    *)
(* table creates no voice, schedules no release, and leaves the registry   *)
(* and the active keys unchanged.                                          *)
C7_UnmappedKeyIgnored ==
    [][ \A e \in InputKeys :
          ( /\ handleKeyDown(e) \/ handleKeyUp(e)
            /\ ToLowerCase(e) \notin DOMAIN NOTES )
          => UNCHANGED << oscillatorsRef, gainsRef, voices, activeKeys,
                          handlerKeys, timers >> ]_vars

\* An unmapped key event has been handled while a voice was registered.
C7_Witness == ignored = "unmapped" /\ oscillatorsRef # << >>

(* C8: a click or a key-down of any key while the output is suspended      *)
(* requests resume, and every voice was created with the output not        *)
(* suspended or with resume requested.                                     *)
C8_ResumeBeforeSound ==
    /\ [][ ( /\ click \/ \E e \in InputKeys : handleKeyDown(e)
             /\ ctxState = "suspended" )
           => resumeRequested' ]_vars
    /\ [](\A v \in DOMAIN voices : voices[v].resumeOk)

\* A voice exists that was created while the output was suspended.
C8_Witness ==
    /\ ctxState = "suspended"
    /\ resumeRequested
    /\ voices # << >>

(* C9: with no AudioContext constructor the engine ends mounted, in a      *)
(* no-sound state, and the renderer has synthetic spectrum data.           *)
C9_DegradesWithoutAudio ==
    (~audioAvailable /\ phase # "constructed") =>
        (phase = "mounted" /\ analyserData # Null)

(* C10, as stated: the value the sampler stores for a bin of raw magnitude *)
(* m is min(255, m * 1.5), in 0..255 and non-decreasing in m.              *)
C10_AmplifiedExactly ==
    rawRead # Null =>
        /\ \A i \in 1..NumBins :
             /\ dataArray[i] * GainDen = Min(MaxByte * GainDen, rawRead[i] * GainNum)
             /\ dataArray[i] \in 0..MaxByte
        /\ \A i, j \in 1..NumBins :
             rawRead[i] <= rawRead[j] => dataArray[i] <= dataArray[j]

(* C10, amended: the stored value is min(255, m * 1.5) truncated to an     *)
(* integer, in 0..255 and non-decreasing in m.                             *)
C10_AmplifiedTruncated ==
    rawRead # Null =>
        /\ \A i \in 1..NumBins :
             /\ dataArray[i] = Min(MaxByte, (rawRead[i] * GainNum) \div GainDen)
             /\ dataArray[i] \in 0..MaxByte
        /\ \A i, j \in 1..NumBins :
             rawRead[i] <= rawRead[j] => dataArray[i] <= dataArray[j]

\* A frame has amplified an odd magnitude below the clamp and a larger one
\* that is clamped.
C10_Witness ==
    /\ rawRead # Null
    /\ \E i, j \in 1..NumBins :
         /\ rawRead[i] % 2 = 1
         /\ dataArray[i] < MaxByte
         /\ rawRead[j] > rawRead[i]
         /\ dataArray[j] = MaxByte

AtSpawn(ps) ==
    /\ ps.first # << >>
    /\ ps.first[1].x = Real(ps.first[1].x0)
    /\ ps.first[1].y = Real(ps.first[1].y0)

(* C12: every step whose frame has a canvas, a 2-D context and a snapshot  *)
(* draws with exactly one algorithm, the one of the current selection      *)
(* (Bars for a selection that is none of the four), and a step changes the *)
(* particle field only in particles mode.                                  *)
C12_OneAlgorithmPerFrame ==
    [][ /\ (target = "ok" /\ analyserData' # Null) =>
              /\ lastFrame'.drawn
              /\ lastFrame'.algorithm =
                   (IF activeVisualizer' \in {"circular", "wave", "particles"}
                    THEN activeVisualizer' ELSE "bars")
              /\ lastFrame'.stepped = (activeVisualizer' = "particles")
        /\ particlesRef' # particlesRef => activeVisualizer' = "particles" ]_vars

\* A wave frame has been drawn while particles that had been advanced exist.
C12_Witness ==
    /\ lastFrame.drawn
    /\ lastFrame.algorithm = "wave"
    /\ particlesRef.first # << >>
    /\ ~AtSpawn(particlesRef)

(* C13: a frame without a canvas, a 2-D context or a snapshot draws        *)
(* nothing, leaves the animation phase and the particles as they are (the  *)
(* particles as the setup effect of the same re-render made them), and the *)
(* next frame is requested.                                                *)
C13_UnavailableTargetSkipsFrame ==
    [][ (target # "ok" \/ analyserData' = Null) =>
          /\ ~lastFrame'.drawn
          /\ colorIndex' = colorIndex
          /\ rafPending'
          /\ animate => particlesRef' = particlesRef
          /\ \/ particlesRef' = particlesRef
             \/ AtSpawn(particlesRef') ]_vars

\* Two frames in a row have been skipped while a particle population
\* exists, and the next frame is requested.
C13_Witness ==
    /\ ~lastFrame.drawn
    /\ lastFrame.afterSkip
    /\ particlesRef.first # << >>
    /\ rafPending

(* C14: the draw callback of the animation loop holds the current          *)
(* selection, and the last frame drawn since the selection changed was     *)
(* drawn with the current selection's algorithm.                           *)
C14_SwitchTakesEffectNextFrame ==
    /\ drawMode = activeVisualizer
    /\ lastFrame.drawn =>
         lastFrame.algorithm =
           (CASE activeVisualizer = "circular" -> "circular"
              [] activeVisualizer = "wave" -> "wave"
              [] activeVisualizer = "particles" -> "particles"
              [] OTHER -> "bars")

\* After particles frames the selection changed to circular and a circular
\* frame has been drawn.
C14_Witness ==
    /\ activeVisualizer = "circular"
    /\ lastFrame.drawn
    /\ lastFrame.algorithm = "circular"
    /\ particlesRef.first # << >>
    /\ ~AtSpawn(particlesRef)

(* C15: no frame that is drawn leaves a particle coordinate that is not a  *)
(* number, whatever the mode and the snapshot (the empty one included).    *)
C15_FramesNeverFault ==
    (lastFrame.drawn /\ particlesRef.first # << >>) =>
        /\ ~particlesRef.first[1].x.nan
        /\ ~particlesRef.first[1].y.nan

(* C16: the number of particles changes only when the selection becomes    *)
(* particles, to the fixed population count; no frame changes it.          *)
C16_PopulationInvariantAcrossSteps ==
    [][ /\ animate => particlesRef'.length = particlesRef.length
        /\ particlesRef'.length # particlesRef.length =>
              /\ activeVisualizer' = "particles"
              /\ activeVisualizer # "particles"
              /\ particlesRef'.length = PopulationCount ]_vars

\* At least two particles frames in a row have advanced the population.
C16_Witness ==
    /\ lastFrame.stepped
    /\ ~lastFrame.afterSkip
    /\ ~AtSpawn(particlesRef)
    /\ particlesRef.length = PopulationCount
    /\ activeVisualizer = "particles"

(* C17: after a particles frame every particle position that is a number   *)
(* lies in [0, width) x [0, height), the upper bounds excluded.            *)
C17_WithinHalfOpenBounds ==
    (lastFrame.stepped /\ particlesRef.first # << >>) =>
        LET p == particlesRef.first[1]
        IN  /\ ~p.x.nan => (0 <= p.x.v /\ p.x.v < dimensions.width * Scale)
            /\ ~p.y.nan => (0 <= p.y.v /\ p.y.v < dimensions.height * Scale)

(* C18: in particles mode exactly the fixed population count of particles  *)
(* exists, from before the first particles frame on, and every particle    *)
(* was generated inside the current viewport.                              *)
C18_PopulationOnParticlesMode ==
    activeVisualizer = "particles" =>
        /\ particlesRef.length = PopulationCount
        /\ particlesRef.first # << >>
        /\ LET p == particlesRef.first[1]
           IN  /\ 0 <= p.x0 /\ p.x0 < dimensions.width * Scale
               /\ 0 <= p.y0 /\ p.y0 < dimensions.height * Scale

\* The selection is particles, no particles frame has run yet, and the
\* first particle is where it was generated, at the far end of the viewport.
C18_Witness ==
    /\ activeVisualizer = "particles"
    /\ ~lastFrame.drawn
    /\ particlesRef.length = PopulationCount
    /\ AtSpawn(particlesRef)
    /\ particlesRef.first[1].x0 = dimensions.width * Scale - 1

Releasing == { voices[v].key : v \in { w \in DOMAIN voices :
                                         voices[w].sinceOff >= 0 /\ voices[w].stops = 0 } }

(* C20: a key has a registry entry exactly when it is held (its last       *)
(* key-down started a voice and it has had no key-up since) or its release *)
(* has not completed; so the registry has as many entries as such keys.    *)
C20_RegistryMatchesHeldKeys ==
    /\ \A k \in DOMAIN NOTES :
         k \in DOMAIN oscillatorsRef <=> k \in pressed \cup Releasing
    /\ Cardinality(DOMAIN oscillatorsRef) = Cardinality(pressed \cup Releasing)

(* C21: a key-down of a key whose voice is in its release window creates   *)
(* no oscillator and leaves the registry, the active keys and the pending  *)
(* release timers as they are; and a release timer that fires while its    *)
(* key is registered removes the entry and stops that oscillator.          *)
C21_RepressDuringReleaseIgnored ==
    /\ [][ \A e \in InputKeys :
             (handleKeyDown(e) /\ ToLowerCase(e) \in Releasing)
             => UNCHANGED << voices, oscillatorsRef, gainsRef, timers,
                             activeKeys, handlerKeys >> ]_vars
    /\ [][ (releaseTimeout /\ Head(timers).key \in DOMAIN oscillatorsRef)
             => /\ Head(timers).key \notin DOMAIN oscillatorsRef'
                /\ Head(timers).key \notin DOMAIN gainsRef'
                /\ oscillatorsRef[Head(timers).key] \notin DOMAIN voices' ]_vars

\* A re-press during the release window was ignored, and the release has
\* since completed: no voice, no entry and no timer is left.
C21_Witness ==
    /\ ignored = "repressInRelease"
    /\ voices = << >>
    /\ oscillatorsRef = << >>
    /\ timers = << >>

(* C22: in the lazily-initialised engine, once the audio graph exists, a   *)
(* frame request of the sampler is pending, so that every display frame    *)
(* reads a snapshot and hands it to the renderer.                          *)
C22_SamplerRunsEveryFrame ==
    (phase = "mounted" /\ ctxState # "none") => framePending

(* C23: (as claimed) the magnitude with which Bars, Circular and Wave size  *)
(* a bin is min(255, m * k) of the raw magnitude m the analyser gave, for  *)
(* one gain k between 1.5 and 2.5 (k in tenths, both sides times ten).     *)
C23_SingleGain ==
    (rawRead # Null /\ lastFrame.drawn
        /\ lastFrame.algorithm \in {"bars", "circular", "wave"}) =>
        \E k \in 15..25 :
            \A i \in 1..NumBins :
                lastFrame.magnitudes[i] * 5 = Min(2550, k * rawRead[i])

(* C23: (amended) the sampler stores min(255, floor(1.5 m)) of the raw     *)
(* magnitude m, and Bars, Circular and Wave size the bin with min(255,     *)
(* 2.5 a) of the stored value a (here in halves).                          *)
C23_TwoStageAmplification ==
    (rawRead # Null /\ lastFrame.drawn
        /\ lastFrame.algorithm \in {"bars", "circular", "wave"}) =>
        /\ Len(lastFrame.magnitudes) = NumBins
        /\ \A i \in 1..NumBins :
             LET a == IF 3 * rawRead[i] >= 510 THEN 255 ELSE (3 * rawRead[i]) \div 2
             IN  /\ analyserData[i] = a
                 /\ lastFrame.magnitudes[i] = (IF 5 * a >= 510 THEN 510 ELSE 5 * a)

\* A wave frame has sized a bin whose raw magnitude was 40 with 150, and a
\* bin whose raw magnitude was 41 with 152.5.
C23_Witness ==
    /\ rawRead # Null
    /\ lastFrame.drawn
    /\ lastFrame.algorithm = "wave"
    /\ \E i, j \in 1..NumBins :
         /\ rawRead[i] = 40 /\ lastFrame.magnitudes[i] = 300
         /\ rawRead[j] = 41 /\ lastFrame.magnitudes[j] = 305

\* The population ps with its first particle put back where it was generated.
Respawned(ps) ==
    [ps EXCEPT !.first = << [ps.first[1] EXCEPT !.x = Real(ps.first[1].x0),
                                                !.y = Real(ps.first[1].y0)] >>]

\* ps is a population the setup effect generated for dims in the re-render
\* just made: where it was generated, or one frame on snapshot data away.
FreshFor(ps, dims, data) ==
    /\ ps.length = PopulationCount
    /\ ps.viewport = dims
    /\ ps.first # << >>
    /\ ps.first[1].x0 \in SpawnPositions(dims.width)
    /\ ps.first[1].y0 \in SpawnPositions(dims.height)
    /\ ps.first[1].speedX \in Speeds
    /\ ps.first[1].speedY \in Speeds
    /\ [size |-> ps.first[1].size, color |-> ps.first[1].color] \in Looks
    /\ \/ AtSpawn(ps)
       \/ ps = StepParticles(Respawned(ps), dims, data)

(* C24: (as claimed) every resize, in whatever mode, leaves a particle     *)
(* population generated for the new dimensions, and the frame drawn after  *)
(* it uses the new dimensions.                                             *)
C24_ResizeRegeneratesInAnyMode ==
    [][ dimensions' # dimensions =>
          /\ particlesRef'.length = PopulationCount
          /\ particlesRef'.viewport = dimensions'
          /\ lastFrame'.viewport = dimensions' ]_vars

(* C24: (amended) a resize regenerates the population only in particles    *)
(* mode and leaves it as it is in every other mode; every frame uses the   *)
(* current dimensions; and in particles mode, and so after every particles *)
(* frame, the population is one generated for the current dimensions.      *)
C24_ResizeRegeneratesInParticlesMode ==
    /\ [][ dimensions' # dimensions =>
             /\ lastFrame'.viewport = dimensions'
             /\ activeVisualizer # "particles" => particlesRef' = particlesRef
             /\ activeVisualizer = "particles" =>
                   FreshFor(particlesRef', dimensions', analyserData)
           ]_vars
    /\ [](lastFrame.viewport = dimensions)
    /\ [](activeVisualizer = "particles" =>
             /\ particlesRef.length = PopulationCount
             /\ particlesRef.viewport = dimensions)
    /\ [](lastFrame.stepped => particlesRef.viewport = dimensions)

\* After a resize in wave mode the stored population is still the one
\* generated for the old dimensions, and a wave frame has been drawn.
C24_Witness ==
    /\ activeVisualizer = "wave"
    /\ lastFrame.drawn
    /\ lastFrame.algorithm = "wave"
    /\ particlesRef.length = PopulationCount
    /\ particlesRef.viewport # dimensions

(* C25: (as claimed) when the mode changes from particles to another mode  *)
(* the stored particle population becomes empty.                           *)
C25_FieldDiscardedOnLeave ==
    [][ (activeVisualizer = "particles" /\ activeVisualizer' # "particles")
          => particlesRef'.length = 0 ]_vars

(* C25: (amended) when the mode changes from particles to another mode the *)
(* stored population is kept as it is, and no frame of another mode        *)
(* touches it; when the mode changes back to particles the population is   *)
(* replaced by a newly generated one (advanced by the frame of that        *)
(* re-render, if it is drawn).                                             *)
C25_FieldReplacedOnReturn ==
    /\ [][ activeVisualizer' # "particles" => particlesRef' = particlesRef ]_vars
    /\ [][ (activeVisualizer # "particles" /\ activeVisualizer' = "particles") =>
             FreshFor(particlesRef', dimensions, analyserData)
           ]_vars

\* Bars frames are drawn while the population that particles frames had
\* advanced is still stored.
C25_Witness ==
    /\ activeVisualizer = "bars"
    /\ lastFrame.drawn
    /\ lastFrame.algorithm = "bars"
    /\ particlesRef.length = PopulationCount
    /\ ~AtSpawn(particlesRef)

(* C26: a particles frame changes only the positions: the stored size, the *)
(* two speeds and the color of a particle are the same before and after.   *)
C26_StepChangesOnlyPositions ==
    [][ ((animate \/ \E data \in Snapshots : handleAudioProcess(data))
            /\ particlesRef.first # << >>) =>
          /\ particlesRef'.first # << >>
          /\ particlesRef'.first[1].size = particlesRef.first[1].size
          /\ particlesRef'.first[1].speedX = particlesRef.first[1].speedX
          /\ particlesRef'.first[1].speedY = particlesRef.first[1].speedY
          /\ particlesRef'.first[1].color = particlesRef.first[1].color
          /\ particlesRef'.first[1].x0 = particlesRef.first[1].x0
          /\ particlesRef'.first[1].y0 = particlesRef.first[1].y0 ]_vars

\* Two particles frames in a row at full intensity have moved a particle
\* of the largest size across an edge.
C26_Witness ==
    /\ lastFrame.stepped
    /\ ~lastFrame.afterSkip
    /\ lastFrame.intensity.num = lastFrame.intensity.den
    /\ particlesRef.first # << >>
    /\ particlesRef.first[1].size = (SizeMin + SizeRange) * Scale - 1
    /\ particlesRef.first[1].x = Real(0)
    /\ particlesRef.first[1].x0 # 0

(* C27: for every non-empty snapshot of bytes, the intensity the particles *)
(* algorithm computes is a number in [0, 1]; so is the second variant's.   *)
C27_IntensityInUnitInterval ==
    (lastFrame.stepped /\ analyserData # Null /\ Len(analyserData) > 0) =>
        /\ lastFrame.intensity = Intensity(analyserData)
        /\ ~lastFrame.intensity.nan
        /\ lastFrame.intensity.den > 0
        /\ 0 <= lastFrame.intensity.num
        /\ lastFrame.intensity.num <= lastFrame.intensity.den
        /\ LET j == IntensitySecond(analyserData)
           IN  ~j.nan /\ j.den > 0 /\ 0 <= j.num /\ j.num <= j.den

\* A particles frame on a snapshot whose average is just above a third of
\* full scale: the intensity is 1.
C27_Witness ==
    /\ lastFrame.stepped
    /\ \A i \in 1..NumBins : analyserData[i] = 86
    /\ lastFrame.intensity.num = lastFrame.intensity.den

(* C28: in the mounted engine, whenever the handlers hold the current      *)
(* active-key set (no state update is waiting for its re-render), a key of *)
(* the note table is in the active-key set iff it has a registry entry.    *)
C28_ActiveKeysMatchRegistry ==
    (phase = "mounted" /\ handlerKeys = activeKeys) =>
        \A k \in DOMAIN NOTES : k \in activeKeys <=> k \in DOMAIN oscillatorsRef

(* C29: at most one animation-frame request of the Visualizer is pending,  *)
(* the one whose id the animation effect holds; once the Visualizer has    *)
(* unmounted none is pending and no frame callback runs.                   *)
C29_OneFrameRequest ==
    /\ [](rafRequests <= 1)
    /\ [](rafPending <=> rafRequests = 1)
    /\ [](vizMounted => rafRequests = 1)
    /\ [](~vizMounted => rafRequests = 0)
    /\ [][ ~vizMounted => ~animate ]_vars
    /\ [][ ~vizMounted => UNCHANGED << lastFrame, particlesRef, colorIndex >> ]_vars

\* The Visualizer has unmounted after particles frames were drawn.
C29_Witness ==
    /\ ~vizMounted
    /\ rafRequests = 0
    /\ lastFrame.stepped
    /\ ~AtSpawn(particlesRef)

(* C31: the snapshot the page holds for the renderer is an array of its    *)
(* own, never the engine's working buffer; no in-place write to the        *)
(* working buffer (sampling, amplification, key-press boost) has changed a *)
(* snapshot the page held; and every snapshot has the analyser's bin count *)
(* of elements.                                                            *)
C31_SnapshotIsIndependentCopy ==
    /\ snapshotObject # "working"
    /\ ~snapshotOverwritten
    /\ analyserData # Null =>
         /\ snapshotObject = "copy"
         /\ Len(analyserData) = NumBins
    /\ dataArray # Null => Len(dataArray) = NumBins

\* The page holds a sampled snapshot while a key is held: the key-press
\* boost, and then the sampler, have overwritten the working buffer since
\* the page held the seed.
C31_Witness ==
    /\ snapshotObject = "copy"
    /\ pressed # {}
    /\ rawRead # Null
    /\ analyserData = dataArray
    /\ Len(analyserData) = NumBins

(* C30: the oscillator map and the gain map have the same key set, and the *)
(* two entries of a key belong to the same voice.                          *)
C30_MapsHaveSameKeys ==
    /\ DOMAIN oscillatorsRef = DOMAIN gainsRef
    /\ \A k \in DOMAIN oscillatorsRef : oscillatorsRef[k] = gainsRef[k]

\* One key is registered in both maps while the release of another key has
\* just completed.
C30_Witness ==
    /\ Cardinality(DOMAIN oscillatorsRef) = 1
    /\ DOMAIN gainsRef = DOMAIN oscillatorsRef
    /\ (handlerKeys \ activeKeys) \ DOMAIN oscillatorsRef # {}

(* C32: whenever a particles frame has run, the field it stepped holds the *)
(* fixed population count of particles, generated for the dimensions that  *)
(* frame used and inside them: no particles frame steps an empty field or  *)
(* one generated for other dimensions.                                     *)
C32_ParticlesFrameSeesFreshField ==
    lastFrame.stepped =>
        /\ particlesRef.length = PopulationCount
        /\ particlesRef.first # << >>
        /\ particlesRef.viewport = lastFrame.viewport
        /\ particlesRef.first[1].x0 < lastFrame.viewport.width * Scale
        /\ particlesRef.first[1].y0 < lastFrame.viewport.height * Scale

\* A particles frame has advanced a particle generated at the far end of
\* the second viewport.
C32_Witness ==
    /\ lastFrame.stepped
    /\ lastFrame.viewport = Viewports[2]
    /\ particlesRef.viewport = Viewports[2]
    /\ particlesRef.first[1].y0 = Viewports[2].height * Scale - 1
    /\ ~AtSpawn(particlesRef)

====
